---- MODULE Spec2Model ----
(***************************************************************************)
(* A model of the fastboat booking data model (app/models.py): the tables, *)
(* their primary keys, unique columns, foreign keys and column defaults,   *)
(* and the validation of the non-persistent request shapes.                *)
(*                                                                         *)
(* A table is a function from row id to row; ids are handed out by the     *)
(* autoincrement primary key.  An optional value (Optional[...] in the     *)
(* source) is a sequence of length 0 (None) or 1.  A string column with a  *)
(* max_length is modelled by its length where a property reads the limit.  *)
(* Columns no property below reads (names, free text, amounts, creation    *)
(* timestamps, the foreign keys into tables that are not modelled) are     *)
(* left out of the rows.                                                   *)
(***************************************************************************)
EXTENDS Integers, Sequences, FiniteSets, TLC

VARIABLES users, languages, locations, settings, routes, schedules,
          dailySchedules, bookings, passengers, payments, adminActions,
          response

vars == <<users, languages, locations, settings, routes, schedules,
          dailySchedules, bookings, passengers, payments, adminActions,
          response>>

\* ---------------------------------------------------------------- bounds
MaxRows == 2
MaxTotalRows == 3
MaxPassengers == 1
MaxSeats == 3
MaxCount == 3

\* ------------------------------------------------------- optional values
None == <<>>
Some(v) == <<v>>
Option(S) == {None} \cup {Some(v) : v \in S}

\* ------------------------------------------------------------------ enums
BookingStatus == {"pending", "confirmed", "cancelled", "completed"}
PaymentStatus == {"pending", "processing", "completed", "failed", "refunded"}
ScheduleStatus == {"active", "suspended", "cancelled"}

\* ------------------------------------------------------ small input sets
Emails == {"a@x", "b@x"}
LanguageCodes == {"en", "id"}
LocationCodes == {"DPS", "LOP"}
SettingKeys == {"site", "tax"}
BookingRefs == {"BK1", "BK2"}
PaymentRefs == {"PAY1", "PAY2"}
Timestamps == {1}

\* ----------------------------------------------------- table primitives
Rows(table) == Cardinality(DOMAIN table)

TotalRows ==
    Rows(users) + Rows(languages) + Rows(locations) + Rows(settings)
    + Rows(routes) + Rows(schedules) + Rows(dailySchedules) + Rows(bookings)
    + Rows(passengers) + Rows(payments) + Rows(adminActions)

\* The runs are bounded: a table holds at most MaxRows rows and the database
\* at most MaxTotalRows.
HasRoomFor(table, n) ==
    Rows(table) < MaxRows /\ TotalRows + n <= MaxTotalRows

HasRoom(table) == HasRoomFor(table, 1)

NextIdReused(table) == IF Rows(table) = 0 THEN 1 ELSE Rows(table)

\* id: Optional[int] = Field(default=None, primary_key=True): the database
\* assigns the next integer key on insert.
NextId(table) == Rows(table) + 1

Insert(table, row) ==
    [i \in DOMAIN table \cup {NextId(table)} |->
        IF i = NextId(table) THEN [row EXCEPT !.id = NextId(table)]
        ELSE table[i]]

UniqueViolationIgnored(table, field, v) == FALSE

\* Field(unique=True): a stored row with the same value makes the insert
\* fail with an integrity error (a unique violation).
UniqueViolation(table, field, v) ==
    \E i \in DOMAIN table : table[i][field] = v

Ok(op) == [op |-> op, ok |-> TRUE, error |-> "none"]
Rejected(op, err) == [op |-> op, ok |-> FALSE, error |-> err]

\* ---------------------------------------------------------------- Init
Init ==
    /\ users = <<>>
    /\ languages = <<>>
    /\ locations = <<>>
    /\ settings = <<>>
    /\ routes = <<>>
    /\ schedules = <<>>
    /\ dailySchedules = <<>>
    /\ bookings = <<>>
    /\ passengers = <<>>
    /\ payments = <<>>
    /\ adminActions = <<>>
    /\ response = Ok("init")

\* ------------------------------------------------------ reference data
UserRow(email) ==
    [id |-> 0, email |-> email, role |-> "customer",
     preferred_language |-> "en", is_active |-> TRUE]

InsertUserWith(email) ==
    /\ IF UniqueViolation(users, "email", email)
       THEN /\ response' = Rejected("InsertUser", "unique_violation")
            /\ UNCHANGED users
       ELSE /\ HasRoom(users)
            /\ users' = Insert(users, UserRow(email))
            /\ response' = Ok("InsertUser")
    /\ UNCHANGED <<languages, locations, settings, routes, schedules,
                   dailySchedules, bookings, passengers, payments,
                   adminActions>>

InsertUser == \E email \in Emails : InsertUserWith(email)

LanguageRow(code) ==
    [id |-> 0, code |-> code, is_active |-> TRUE, is_default |-> FALSE]

InsertLanguageWith(code) ==
    /\ IF UniqueViolation(languages, "code", code)
       THEN /\ response' = Rejected("InsertLanguage", "unique_violation")
            /\ UNCHANGED languages
       ELSE /\ HasRoom(languages)
            /\ languages' = Insert(languages, LanguageRow(code))
            /\ response' = Ok("InsertLanguage")
    /\ UNCHANGED <<users, locations, settings, routes, schedules,
                   dailySchedules, bookings, passengers, payments,
                   adminActions>>

InsertLanguage == \E code \in LanguageCodes : InsertLanguageWith(code)

LocationRow(code) ==
    [id |-> 0, code |-> code, timezone |-> "UTC", is_active |-> TRUE]

InsertLocationWith(code) ==
    /\ IF UniqueViolation(locations, "code", code)
       THEN /\ response' = Rejected("InsertLocation", "unique_violation")
            /\ UNCHANGED locations
       ELSE /\ HasRoom(locations)
            /\ locations' = Insert(locations, LocationRow(code))
            /\ response' = Ok("InsertLocation")
    /\ UNCHANGED <<users, languages, settings, routes, schedules,
                   dailySchedules, bookings, passengers, payments,
                   adminActions>>

InsertLocation == \E code \in LocationCodes : InsertLocationWith(code)

SystemSettingsRow(key) ==
    [id |-> 0, key |-> key, description |-> "", is_public |-> FALSE]

InsertSystemSettingsWith(key) ==
    /\ IF UniqueViolation(settings, "key", key)
       THEN /\ response' = Rejected("InsertSystemSettings", "unique_violation")
            /\ UNCHANGED settings
       ELSE /\ HasRoom(settings)
            /\ settings' = Insert(settings, SystemSettingsRow(key))
            /\ response' = Ok("InsertSystemSettings")
    /\ UNCHANGED <<users, languages, locations, routes, schedules,
                   dailySchedules, bookings, passengers, payments,
                   adminActions>>

InsertSystemSettings == \E key \in SettingKeys : InsertSystemSettingsWith(key)

\* ---------------------------------------------------------------- routes
RouteRow(dep, arr) ==
    [id |-> 0, departure_location_id |-> dep, arrival_location_id |-> arr,
     distance_km |-> None, is_active |-> TRUE]

\* The two location columns are foreign keys into locations; the table
\* declares no other constraint on the pair.
RouteAccepted(dep, arr) ==
    /\ dep \in DOMAIN locations
    /\ arr \in DOMAIN locations

InsertRoute ==
    \E dep \in 1..MaxRows, arr \in 1..MaxRows :
        /\ IF RouteAccepted(dep, arr)
           THEN /\ HasRoom(routes)
                /\ routes' = Insert(routes, RouteRow(dep, arr))
                /\ response' = Ok("InsertRoute")
           ELSE /\ response' = Rejected("InsertRoute", "foreign_key_violation")
                /\ UNCHANGED routes
        /\ UNCHANGED <<users, languages, locations, settings, schedules,
                       dailySchedules, bookings, passengers, payments,
                       adminActions>>

\* ------------------------------------------------------- daily schedules
DailyScheduleRow(seats) ==
    [id |-> 0, available_seats |-> seats, price_override |-> None,
     is_available |-> TRUE, booking_deadline |-> None, notes |-> ""]

InsertDailySchedule ==
    \E seats \in {MaxSeats} :
        /\ HasRoom(dailySchedules)
        /\ dailySchedules' = Insert(dailySchedules, DailyScheduleRow(seats))
        /\ response' = Ok("InsertDailySchedule")
        /\ UNCHANGED <<users, languages, locations, settings, routes,
                       schedules, bookings, passengers, payments,
                       adminActions>>

\* --------------------------------------------------------------- bookings
ContactEmailMaxLength == 255
ContactPhoneMaxLength == 20

\* A BookingCreate payload.  passenger_count is None when the key is absent
\* from the payload; contact_email and contact_phone are modelled by their
\* lengths; passengers is the list of passenger detail dicts.
BookingCreatePayloads ==
    [daily_schedule_id : 1..MaxRows,
     passenger_count : Option(-1..MaxCount),
     contact_email : {ContactEmailMaxLength, ContactEmailMaxLength + 1},
     contact_phone : {ContactPhoneMaxLength, ContactPhoneMaxLength + 1},
     passengers : UNION {[1..n -> {[first_name |-> "P"]}] : n \in 0..MaxPassengers}]

BookingCreateCountAtLeastZero(req) ==
    IF req.passenger_count = None THEN {"passenger_count"}
    ELSE IF req.passenger_count[1] < 0 THEN {"passenger_count"} ELSE {}

\* passenger_count: int = Field(ge=1): required (no default), at least 1.
BookingCreateCountErrors(req) ==
    IF req.passenger_count = None THEN {"passenger_count"}
    ELSE IF req.passenger_count[1] < 1 THEN {"passenger_count"} ELSE {}

\* The fields a BookingCreate payload fails validation on.
BookingCreateErrors(req) ==
    BookingCreateCountErrors(req)
    \cup (IF req.contact_email > ContactEmailMaxLength
          THEN {"contact_email"} ELSE {})
    \cup (IF req.contact_phone > ContactPhoneMaxLength
          THEN {"contact_phone"} ELSE {})

BookingRowConfirmed(ref, ds, count) ==
    [id |-> 0, booking_reference |-> ref, daily_schedule_id |-> ds,
     passenger_count |-> count, currency |-> "USD", status |-> "confirmed",
     special_requests |-> "", confirmed_at |-> Some(1), cancelled_at |-> None,
     cancellation_reason |-> ""]

\* A new Booking row: the given columns plus the declared column defaults.
BookingRow(ref, ds, count) ==
    [id |-> 0, booking_reference |-> ref, daily_schedule_id |-> ds,
     passenger_count |-> count, currency |-> "USD", status |-> "pending",
     special_requests |-> "", confirmed_at |-> None, cancelled_at |-> None,
     cancellation_reason |-> ""]

PassengerRow(bookingId, details) ==
    [id |-> 0, booking_id |-> bookingId, first_name |-> details.first_name,
     date_of_birth |-> None, special_needs |-> ""]

RECURSIVE InsertPassengers(_, _, _)
InsertPassengers(table, bookingId, list) ==
    IF list = <<>> THEN table
    ELSE InsertPassengers(Insert(table, PassengerRow(bookingId, Head(list))),
                          bookingId, Tail(list))

\* A BookingCreate payload is validated and stored: one Booking row with the
\* payload's passenger_count, and one Passenger row per element of the
\* payload's passengers list.  No other table is written.
CreateBookingWith(req, ref) ==
    /\ IF BookingCreateErrors(req) # {}
       THEN /\ response' = Rejected("CreateBooking", "validation_error")
            /\ UNCHANGED <<bookings, passengers>>
       ELSE IF req.daily_schedule_id \notin DOMAIN dailySchedules
       THEN /\ response' = Rejected("CreateBooking", "foreign_key_violation")
            /\ UNCHANGED <<bookings, passengers>>
       ELSE IF UniqueViolation(bookings, "booking_reference", ref)
       THEN /\ response' = Rejected("CreateBooking", "unique_violation")
            /\ UNCHANGED <<bookings, passengers>>
       ELSE /\ HasRoomFor(bookings, 1 + Len(req.passengers))
            /\ bookings' = Insert(bookings,
                    BookingRow(ref, req.daily_schedule_id,
                               req.passenger_count[1]))
            /\ passengers' = InsertPassengers(passengers, NextId(bookings),
                                              req.passengers)
            /\ response' = Ok("CreateBooking")
    /\ UNCHANGED <<users, languages, locations, settings, routes,
                   schedules, dailySchedules, payments, adminActions>>

\* The payloads stored in the runs: those of BookingCreatePayloads with a
\* contact_email and contact_phone of legal length and a passenger_count,
\* when given, in 0..MaxPassengers.
StoredBookingPayloads ==
    {req \in BookingCreatePayloads :
        /\ req.contact_email = ContactEmailMaxLength
        /\ req.contact_phone = ContactPhoneMaxLength
        /\ req.passenger_count \in Option(0..MaxPassengers)}

CreateBooking ==
    \E req \in StoredBookingPayloads, ref \in BookingRefs :
        CreateBookingWith(req, ref)

\* The booking lifecycle columns: status with confirmed_at, and status with
\* cancelled_at and cancellation_reason.
ConfirmBooking ==
    \E id \in DOMAIN bookings, t \in Timestamps :
        /\ bookings[id].status = "pending"
        /\ bookings' = [bookings EXCEPT ![id].status = "confirmed",
                                        ![id].confirmed_at = Some(t)]
        /\ response' = Ok("ConfirmBooking")
        /\ UNCHANGED <<users, languages, locations, settings, routes,
                       schedules, dailySchedules, passengers, payments,
                       adminActions>>

CancelBooking ==
    \E id \in DOMAIN bookings, t \in Timestamps :
        /\ bookings[id].status \in {"pending", "confirmed"}
        /\ bookings' = [bookings EXCEPT ![id].status = "cancelled",
                                        ![id].cancelled_at = Some(t),
                                        ![id].cancellation_reason = "requested"]
        /\ response' = Ok("CancelBooking")
        /\ UNCHANGED <<users, languages, locations, settings, routes,
                       schedules, dailySchedules, passengers, payments,
                       adminActions>>

\* --------------------------------------------------------------- payments
\* A new Payment row: the given columns plus the declared column defaults.
PaymentRow(ref, bookingId) ==
    [id |-> 0, booking_id |-> bookingId, payment_reference |-> ref,
     currency |-> "USD", status |-> "pending",
     gateway_transaction_id |-> None, processed_at |-> None,
     failed_at |-> None, failure_reason |-> "", refunded_at |-> None,
     refund_amount |-> None]

CreatePaymentWith(bookingId, ref) ==
    /\ IF bookingId \notin DOMAIN bookings
       THEN /\ response' = Rejected("CreatePayment", "foreign_key_violation")
            /\ UNCHANGED payments
       ELSE IF UniqueViolation(payments, "payment_reference", ref)
       THEN /\ response' = Rejected("CreatePayment", "unique_violation")
            /\ UNCHANGED payments
       ELSE /\ HasRoom(payments)
            /\ payments' = Insert(payments, PaymentRow(ref, bookingId))
            /\ response' = Ok("CreatePayment")
    /\ UNCHANGED <<users, languages, locations, settings, routes,
                   schedules, dailySchedules, bookings, passengers,
                   adminActions>>

CreatePayment ==
    \E bookingId \in 1..MaxRows, ref \in PaymentRefs :
        CreatePaymentWith(bookingId, ref)

\* ---------------------------------------------------------- admin actions
AdminActionRow(admin, type, resource) ==
    [id |-> 0, admin_user_id |-> admin, action_type |-> type,
     resource_type |-> "booking", resource_id |-> resource]

AddAdminAction ==
    \E admin \in 1..MaxRows, type \in {"cancel"}, resource \in Option({1}) :
        /\ IF admin \in DOMAIN users
           THEN /\ HasRoom(adminActions)
                /\ adminActions' = Insert(adminActions,
                                          AdminActionRow(admin, type, resource))
                /\ response' = Ok("AddAdminAction")
           ELSE /\ response' = Rejected("AddAdminAction", "foreign_key_violation")
                /\ UNCHANGED adminActions
        /\ UNCHANGED <<users, languages, locations, settings, routes,
                       schedules, dailySchedules, bookings, passengers,
                       payments>>

\* ------------------------------------------------ daily schedule update
\* A DailyScheduleUpdate payload: a field is None when its key is absent.
AllDailyScheduleUpdatePayloads ==
    [available_seats : Option({0}),
     price_override : Option({5}),
     is_available : Option({FALSE}),
     booking_deadline : Option({1}),
     notes : Option({"late"})]

Present(payload) ==
    {f \in DOMAIN payload : payload[f] # None}

\* The payloads sent in the runs: no key, one key, or all five keys.
DailyScheduleUpdatePayloads ==
    {payload \in AllDailyScheduleUpdatePayloads :
        Cardinality(Present(payload)) \in {0, 1, 5}}

DailyScheduleUpdateDefaultsZeroSeats ==
    [available_seats |-> Some(0), price_override |-> None,
     is_available |-> None, booking_deadline |-> None, notes |-> None]

\* Every field of the shape is Optional and defaults to None.
DailyScheduleUpdateDefaults ==
    [available_seats |-> None, price_override |-> None,
     is_available |-> None, booking_deadline |-> None, notes |-> None]

\* The DailyScheduleUpdate object built from a payload: the keys given, and
\* the declared default for every key left out.
DailyScheduleUpdate(payload) ==
    [f \in DOMAIN payload |->
        IF payload[f] = None THEN DailyScheduleUpdateDefaults[f]
        ELSE payload[f]]

\* Patch semantics: a field of the update that is None leaves the column as
\* it is, any other value is written to the column.
ApplyDailyScheduleUpdate(row, upd) ==
    [row EXCEPT
        !.available_seats =
            IF upd.available_seats = None THEN @ ELSE upd.available_seats[1],
        !.price_override =
            IF upd.price_override = None THEN @ ELSE upd.price_override,
        !.is_available =
            IF upd.is_available = None THEN @ ELSE upd.is_available[1],
        !.booking_deadline =
            IF upd.booking_deadline = None THEN @ ELSE upd.booking_deadline,
        !.notes = IF upd.notes = None THEN @ ELSE upd.notes[1]]

UpdateDailyScheduleWith(id, payload) ==
    /\ id \in DOMAIN dailySchedules
    /\ dailySchedules' =
           [dailySchedules EXCEPT
               ![id] = ApplyDailyScheduleUpdate(@, DailyScheduleUpdate(payload))]
    /\ response' = Ok("UpdateDailySchedule")
    /\ UNCHANGED <<users, languages, locations, settings, routes, schedules,
                   bookings, passengers, payments, adminActions>>

UpdateDailySchedule ==
    \E id \in DOMAIN dailySchedules, payload \in DailyScheduleUpdatePayloads :
        UpdateDailyScheduleWith(id, payload)

NextInventory == InsertDailySchedule \/ UpdateDailySchedule

SpecInventory == Init /\ [][NextInventory]_vars

\* ------------------------------------------------------------- calendar
Date(y, m, d) == [year |-> y, month |-> m, day |-> d]

IsLeap(y) == y % 4 = 0 /\ (y % 100 # 0 \/ y % 400 = 0)

DaysBeforeYear(y) ==
    LET p == y - 1 IN p * 365 + (p \div 4) - (p \div 100) + (p \div 400)

DaysBeforeMonth(y, m) ==
    <<0, 31, 59, 90, 120, 151, 181, 212, 243, 273, 304, 334>>[m]
    + (IF m > 2 /\ IsLeap(y) THEN 1 ELSE 0)

\* date.toordinal(): the day number, 0001-01-01 being day 1.
Ordinal(d) ==
    DaysBeforeYear(d.year) + DaysBeforeMonth(d.year, d.month) + d.day

WeekdaySundayFirst(d) == Ordinal(d) % 7

\* Operating days count from 0 = Monday, as date.weekday() does.
Weekday(d) == (Ordinal(d) + 6) % 7

\* Dates compare by (year, month, day).
DateLe(a, b) ==
    \/ a.year < b.year
    \/ a.year = b.year /\ a.month < b.month
    \/ a.year = b.year /\ a.month = b.month /\ a.day <= b.day

QueryDates ==
    {Date(2023, 12, 25), Date(2024, 6, 10), Date(2024, 6, 11),
     Date(2024, 6, 12)}

\* ------------------------------------------------------------- schedules
\* A ScheduleCreate payload; effective_until is None when the key is absent.
ScheduleCreatePayloads ==
    [days_of_week : {<<0, 2, 4>>, <<1, 3>>},
     effective_from : {Date(2024, 1, 1), Date(2024, 6, 11)},
     effective_until : Option({Date(2024, 6, 10)})]

\* A new Schedule row: the payload's columns plus the declared defaults
\* (status active; effective_until None when not given).
ScheduleRow(req) ==
    [id |-> 0, days_of_week |-> req.days_of_week,
     effective_from |-> req.effective_from,
     effective_until |-> req.effective_until,
     currency |-> "USD", status |-> "active"]

InsertSchedule ==
    \E req \in ScheduleCreatePayloads :
        /\ HasRoom(schedules)
        /\ schedules' = Insert(schedules, ScheduleRow(req))
        /\ response' = Ok("InsertSchedule")
        /\ UNCHANGED <<users, languages, locations, settings, routes,
                       dailySchedules, bookings, passengers, payments,
                       adminActions>>

SetScheduleStatus ==
    \E id \in DOMAIN schedules, st \in ScheduleStatus :
        /\ schedules[id].status # st
        /\ schedules' = [schedules EXCEPT ![id].status = st]
        /\ response' = Ok("SetScheduleStatus")
        /\ UNCHANGED <<users, languages, locations, settings, routes,
                       dailySchedules, bookings, passengers, payments,
                       adminActions>>

\* The weekday/range rule: the schedule is active, operates on the weekday
\* of the date, and the date lies in [effective_from, effective_until], an
\* unset effective_until leaving the window open.
IsActiveOn(s, d) ==
    /\ s.status = "active"
    /\ \E i \in 1..Len(s.days_of_week) : s.days_of_week[i] = Weekday(d)
    /\ DateLe(s.effective_from, d)
    /\ (s.effective_until = None \/ DateLe(d, s.effective_until[1]))

QueryActiveOn ==
    \E id \in DOMAIN schedules, d \in QueryDates :
        /\ response' = [op |-> "IsActiveOn", ok |-> TRUE, error |-> "none",
                        schedule_id |-> id, date |-> d,
                        active |-> IsActiveOn(schedules[id], d)]
        /\ UNCHANGED <<users, languages, locations, settings, routes,
                       schedules, dailySchedules, bookings, passengers,
                       payments, adminActions>>

NextSchedule == InsertSchedule \/ SetScheduleStatus \/ QueryActiveOn

SpecSchedule == Init /\ [][NextSchedule]_vars

\* ------------------------------------------------------- request shapes
\* A RouteSearch payload; passenger_count is None when the key is absent.
RouteSearchPayloads ==
    [departure_location_id : 1..MaxRows,
     arrival_location_id : 1..MaxRows,
     travel_date : QueryDates,
     passenger_count : Option(-1..MaxCount)]

RouteSearchDefaultPassengerCount == 1

RouteSearchCountAboveOne(req) ==
    IF req.passenger_count # None /\ req.passenger_count[1] <= 1
    THEN {"passenger_count"} ELSE {}

\* passenger_count: int = Field(default=1, ge=1): a given value must be at
\* least 1; the default is not validated.
RouteSearchErrors(req) ==
    IF req.passenger_count # None /\ req.passenger_count[1] < 1
    THEN {"passenger_count"} ELSE {}

\* The RouteSearch object built from a valid payload.
RouteSearch(req) ==
    [req EXCEPT !.passenger_count =
        IF @ = None THEN RouteSearchDefaultPassengerCount ELSE @[1]]

SubmitRouteSearch ==
    \E req \in RouteSearchPayloads :
        /\ response' =
              [op |-> "RouteSearch", ok |-> RouteSearchErrors(req) = {},
               error |-> IF RouteSearchErrors(req) = {} THEN "none"
                         ELSE "validation_error",
               fields |-> RouteSearchErrors(req), request |-> req,
               value |-> IF RouteSearchErrors(req) = {}
                         THEN Some(RouteSearch(req)) ELSE None]
        /\ UNCHANGED <<users, languages, locations, settings, routes,
                       schedules, dailySchedules, bookings, passengers,
                       payments, adminActions>>

SubmitBookingCreate ==
    \E req \in BookingCreatePayloads :
        /\ response' =
              [op |-> "BookingCreate", ok |-> BookingCreateErrors(req) = {},
               error |-> IF BookingCreateErrors(req) = {} THEN "none"
                         ELSE "validation_error",
               fields |-> BookingCreateErrors(req), request |-> req]
        /\ UNCHANGED <<users, languages, locations, settings, routes,
                       schedules, dailySchedules, bookings, passengers,
                       payments, adminActions>>

NextForms == SubmitRouteSearch \/ SubmitBookingCreate

SpecForms == Init /\ [][NextForms]_vars

\* ------------------------------------------------------------------ Spec
Next ==
    \/ InsertUser
    \/ InsertLanguage
    \/ InsertLocation
    \/ InsertSystemSettings
    \/ InsertRoute
    \/ InsertDailySchedule
    \/ CreateBooking
    \/ ConfirmBooking
    \/ CancelBooking
    \/ CreatePayment
    \/ AddAdminAction

Spec == Init /\ [][Next]_vars

\* =============================================================== properties
Stored(table, field, v) == \E i \in DOMAIN table : table[i][field] = v

NoDuplicate(table, field) ==
    \A i, j \in DOMAIN table : table[i][field] = table[j][field] => i = j

\* The rows of new that old lacks carry values of field that old lacks.
FreshKeys(old, new, field) ==
    \A i \in DOMAIN new \ DOMAIN old : ~Stored(old, field, new[i][field])

AllUnique ==
    /\ NoDuplicate(users, "email")
    /\ NoDuplicate(bookings, "booking_reference")
    /\ NoDuplicate(payments, "payment_reference")
    /\ NoDuplicate(locations, "code")
    /\ NoDuplicate(languages, "code")
    /\ NoDuplicate(settings, "key")

\* C1: no two stored rows share User.email, Booking.booking_reference,
\* Payment.payment_reference, Location.code, Language.code or
\* SystemSettings.key, and an insert whose unique field equals that of a
\* stored row of the same entity is rejected and leaves the rows unchanged.
C1_UniqueFieldsRejectDuplicates ==
    [][/\ AllUnique'
       /\ FreshKeys(users, users', "email")
       /\ FreshKeys(bookings, bookings', "booking_reference")
       /\ FreshKeys(payments, payments', "payment_reference")
       /\ FreshKeys(locations, locations', "code")
       /\ FreshKeys(languages, languages', "code")
       /\ FreshKeys(settings, settings', "key")
       /\ response'.error = "unique_violation" =>
            UNCHANGED <<users, languages, locations, settings, routes,
                        schedules, dailySchedules, bookings, passengers,
                        payments, adminActions>>
      ]_vars

\* A second payment with a stored payment_reference has just been refused.
C1_Witness ==
    /\ response.op = "CreatePayment"
    /\ response.error = "unique_violation"
    /\ Rows(payments) = 1

PassengersOf(b) == {p \in DOMAIN passengers : passengers[p].booking_id = b}

\* C2: for every stored Booking, the number of Passenger rows whose
\* booking_id is that booking equals its passenger_count.
C2_PassengerRowsMatchCount ==
    \A b \in DOMAIN bookings :
        Cardinality(PassengersOf(b)) = bookings[b].passenger_count

RECURSIVE SumCount(_)
SumCount(S) ==
    IF S = {} THEN 0
    ELSE LET b == CHOOSE x \in S : TRUE
         IN bookings'[b].passenger_count + SumCount(S \ {b})

CreatedOn(ds) ==
    {b \in DOMAIN bookings' \ DOMAIN bookings :
        bookings'[b].daily_schedule_id = ds}

CancelledOn(ds) ==
    {b \in DOMAIN bookings :
        /\ bookings[b].daily_schedule_id = ds
        /\ bookings[b].status # "cancelled"
        /\ bookings'[b].status = "cancelled"}

\* C3: creating a Booking of passenger_count N against a DailySchedule
\* decrements that DailySchedule's available_seats by N, cancelling it
\* increments it by N, and no other DailySchedule's available_seats changes.
C3_SeatsFollowBookings ==
    [][\A ds \in DOMAIN dailySchedules :
          dailySchedules'[ds].available_seats =
              dailySchedules[ds].available_seats
              - SumCount(CreatedOn(ds)) + SumCount(CancelledOn(ds))]_vars

\* C4: BookingCreate rejects a passenger_count below 1 and a payload without
\* passenger_count with a validation error naming the field, and accepts a
\* passenger_count of 1 or more when the other fields are valid.
C4_BookingCreateCountValidated ==
    response.op = "BookingCreate" =>
        LET req == response.request
            pc == req.passenger_count
        IN /\ pc = None =>
                /\ ~response.ok
                /\ response.error = "validation_error"
                /\ "passenger_count" \in response.fields
           /\ (pc # None /\ pc[1] < 1) =>
                /\ ~response.ok
                /\ response.error = "validation_error"
                /\ "passenger_count" \in response.fields
           /\ (pc # None /\ pc[1] >= 1) =>
                /\ "passenger_count" \notin response.fields
                /\ (/\ req.contact_email <= ContactEmailMaxLength
                    /\ req.contact_phone <= ContactPhoneMaxLength)
                       => response.ok

\* A BookingCreate with passenger_count 0 has been refused.
C4_Witness ==
    /\ response.op = "BookingCreate"
    /\ response.request.passenger_count = Some(0)
    /\ ~response.ok

\* C5: RouteSearch rejects a passenger_count below 1 with a validation
\* error, accepts 1 or more, and built without passenger_count has
\* passenger_count 1.
C5_RouteSearchCountValidated ==
    response.op = "RouteSearch" =>
        LET pc == response.request.passenger_count
        IN /\ (pc # None /\ pc[1] < 1) =>
                /\ ~response.ok
                /\ response.error = "validation_error"
                /\ "passenger_count" \in response.fields
                /\ response.value = None
           /\ (pc # None /\ pc[1] >= 1) =>
                /\ response.ok
                /\ response.value # None
                /\ response.value[1].passenger_count = pc[1]
           /\ pc = None =>
                /\ response.ok
                /\ response.value # None
                /\ response.value[1].passenger_count = 1

\* A RouteSearch without passenger_count has been built with the default.
C5_Witness ==
    /\ response.op = "RouteSearch"
    /\ response.request.passenger_count = None
    /\ response.ok
    /\ response.value[1].passenger_count = 1

UpdateFields ==
    {"available_seats", "price_override", "is_available", "booking_deadline",
     "notes"}

\* C6: applying a DailyScheduleUpdate to a stored DailySchedule changes
\* only the fields present in the update and leaves every absent field
\* unchanged; with all five fields absent the record is unchanged; applying
\* the same update a second time gives the record the first application
\* gave.
C6_UpdateIsPatch ==
    \A id \in DOMAIN dailySchedules, p \in AllDailyScheduleUpdatePayloads :
        LET old == dailySchedules[id]
            new == ApplyDailyScheduleUpdate(old, DailyScheduleUpdate(p))
        IN /\ DOMAIN new = DOMAIN old
           /\ new.id = old.id
           /\ \A f \in UpdateFields : p[f] = None => new[f] = old[f]
           /\ (\A f \in UpdateFields : p[f] = None) => new = old
           /\ ApplyDailyScheduleUpdate(new, DailyScheduleUpdate(p)) = new

\* An update of notes alone has acted on a row: its notes changed and its
\* available_seats, price_override, is_available and booking_deadline are
\* those it was inserted with.
C6_Witness ==
    /\ response.op = "UpdateDailySchedule"
    /\ \E id \in DOMAIN dailySchedules :
          /\ dailySchedules[id].notes = "late"
          /\ dailySchedules[id].available_seats = MaxSeats
          /\ dailySchedules[id].price_override = None
          /\ dailySchedules[id].is_available = TRUE
          /\ dailySchedules[id].booking_deadline = None

\* C7: no stored Route has departure_location_id equal to
\* arrival_location_id.
C7_RouteEndsDiffer ==
    \A r \in DOMAIN routes :
        routes[r].departure_location_id # routes[r].arrival_location_id

DaysOf(s) == {s.days_of_week[i] : i \in 1..Len(s.days_of_week)}

ExampleSchedule(s) ==
    /\ s.days_of_week = <<0, 2, 4>>
    /\ s.effective_from = Date(2024, 1, 1)
    /\ s.effective_until = None
    /\ s.status = "active"

\* C8: a Schedule is active on a date d exactly when its status is active,
\* the weekday of d (0 = Monday .. 6 = Sunday) is in days_of_week, d is on
\* or after effective_from, and effective_until is unset or on or after d;
\* for days_of_week = [0,2,4], effective_from = 2024-01-01, effective_until
\* unset and status active, the answer for Monday 2024-06-10 is true.
C8_ActiveOnWeekdayInWindow ==
    response.op = "IsActiveOn" =>
        LET s == schedules[response.schedule_id]
            d == response.date
        IN /\ response.active <=>
                /\ s.status = "active"
                /\ Weekday(d) \in DaysOf(s)
                /\ Ordinal(d) >= Ordinal(s.effective_from)
                /\ (s.effective_until = None
                    \/ Ordinal(s.effective_until[1]) >= Ordinal(d))
           /\ Weekday(d) \in 0..6
           /\ (ExampleSchedule(s) /\ d = Date(2024, 6, 10)) =>
                /\ Weekday(d) = 0
                /\ response.active

\* The example schedule has been asked about 2024-06-10 and is active.
C8_Witness ==
    /\ response.op = "IsActiveOn"
    /\ ExampleSchedule(schedules[response.schedule_id])
    /\ response.date = Date(2024, 6, 10)
    /\ response.active

\* C9: once an AdminAction row is stored, it exists with every field
\* unchanged in every later state, and the only operation that changes the
\* set of AdminAction rows is adding a new one.
C9_AdminActionsAppendOnly ==
    [][/\ \A id \in DOMAIN adminActions :
            /\ id \in DOMAIN adminActions'
            /\ adminActions'[id] = adminActions[id]
       /\ adminActions' # adminActions =>
            /\ response'.op = "AddAdminAction"
            /\ Cardinality(DOMAIN adminActions' \ DOMAIN adminActions) = 1
      ]_vars

\* Two AdminAction rows are stored and a later operation has acted.
C9_Witness ==
    /\ Rows(adminActions) = 2
    /\ adminActions[1] # adminActions[2]
    /\ response.op # "AddAdminAction"

\* C10: a new Booking has status pending with confirmed_at and cancelled_at
\* unset and an empty cancellation_reason, and a new Payment has status
\* pending with processed_at, failed_at, refunded_at and refund_amount
\* unset.
C10_NewRecordsStartPending ==
    [][/\ \A b \in DOMAIN bookings' \ DOMAIN bookings :
            /\ bookings'[b].status = "pending"
            /\ bookings'[b].confirmed_at = None
            /\ bookings'[b].cancelled_at = None
            /\ bookings'[b].cancellation_reason = ""
       /\ \A p \in DOMAIN payments' \ DOMAIN payments :
            /\ payments'[p].status = "pending"
            /\ payments'[p].processed_at = None
            /\ payments'[p].failed_at = None
            /\ payments'[p].refunded_at = None
            /\ payments'[p].refund_amount = None
      ]_vars

\* A Payment has just been created for a stored Booking.
C10_Witness ==
    /\ response.op = "CreatePayment"
    /\ response.ok
    /\ Rows(bookings) >= 1
    /\ Rows(payments) >= 1
====
